---- MODULE Spec2Model ----
(***************************************************************************)
(* Timing-and-alignment engine of karaoke-time-by-miguel.                  *)
(*                                                                         *)
(*   - Interval resolver: compute_rows_from_starts (karaoke_core.py),      *)
(*     write_ass (karaoke_time.py), build_ass (scripts/karaoke_time.py).   *)
(*   - Text aligner: main loop of scripts/override_lyrics_with_genius.py.  *)
(*   - Capture: tap_collect_times (karaoke_core.py).                       *)
(*   - Render: render_video (karaoke_core.py), from the timing file to     *)
(*     the call of ffmpeg.                                                 *)
(*                                                                         *)
(* Times are integers in milliseconds (the code's float seconds * 1000).   *)
(* Texts are sequences of one-character strings.                           *)
(***************************************************************************)
EXTENDS Integers, Sequences, FiniteSets, TLC

VARIABLES
    \* ---- interval resolver ----
    rows,            \* input rows: sequence of [start, end, text]
    spacing_sec,     \* spacing between cues (ms)
    buffer_sec,      \* buffer trimmed from the final cue (ms)
    offset,          \* global offset of build_ass (ms)
    resolver,        \* which resolver has run: "none" or its name
    cues,            \* the resolver's output: sequence of [start, end, text, kind]
    rows_in,         \* history: the list as it was passed to the first call
    first_cues,      \* history: the output of the first call
    runs,            \* number of calls of the resolver on the list
    fade_in_ms,      \* fade-in passed to the serializer (ms)
    fade_out_ms,     \* fade-out passed to the serializer (ms)
    \* ---- text aligner ----
    whisper_rows,    \* ASR segments: sequence of [timestamp, text]
    genius_lines,    \* authoritative lines: sequence of texts
    min_similarity,  \* threshold in hundredths (0.30 -> 30)
    used,            \* set of consumed line indices
    out_rows,        \* output rows: sequence of [timestamp, text]
    chosen,          \* per segment: how its text was chosen, and which line
    out_file,        \* rows of the written CSV (header first), <<>> before the write
    align_pc,        \* "idle" | "loop" | "written"
    \* ---- capture ----
    cap_state,       \* "idle" | "WaitingForStart" | "AwaitingMark" | "Done" | "Aborted"
    texts,           \* the lyric blocks presented (block ids)
    idx,             \* number of blocks already passed (the block shown is idx + 1)
    clock,           \* time.perf_counter() (ms)
    t0,              \* clock value when the session was armed
    starts,          \* recorded timestamps
    marks,           \* history: clock value at each recorded advance
    shown,           \* history: block indices presented, in order
    typed,           \* history: the lines read by input(), in order
    armed_at,        \* history: clock value when the start prompt returned
    \* ---- render_video (karaoke_core.py) ----
    rv_pc,           \* "idle" | "AskReuse" | "Capturing" | "Exited" | "Failed" | "Rendered"
    csv_file,        \* lyrics_timing.csv: [exists, rows] (rows after the header)
    csv_prior,       \* history: lyrics_timing.csv as render_video found it
    ass_file,        \* the subtitle document: [written, cues]
    ffmpeg_started,  \* subprocess.run(["ffmpeg", ...]) was called
    rv_starts,       \* the timestamps render_video works with
    choice,          \* the lines read at the reuse prompt
    \* ---- timecode formatters ----
    fmt_in,          \* the time handed to a formatter (ms)
    fmt_fn,          \* "none" or the formatter called
    fmt_out,         \* the timecode it returned
    \* ---- timing-file readers ----
    csv_in,          \* the timing file: the rows csv yields, each a sequence of cells
    reader,          \* "none" or the reader called
    read_out,        \* what it returned: [status, rows]
    \* ---- auto-sync (scripts/karaoke_auto_sync_lyrics.py) ----
    clear_cache,     \* --clear-cache
    vocals_wav,      \* separated/htdemucs_ft/<stem>/vocals.wav: [exists, fresh]
    json_custom,     \* lyrics/<base>_whisper.json: [exists, fresh]
    json_default,    \* lyrics/<base>.json: [exists, fresh]
    sync_pc,         \* "start" | "separated" | "transcribed" | "aligned" | "read" | "failed"
    vocals_path,     \* what separate_vocals returned: "none" or the file
    json_out,        \* what transcribe_with_whisper returned: "none" or the file
    ran,             \* the external tools run so far
    lyrics_file,     \* the lines of the lyrics file
    csv_out          \* the rows of the synced CSV, <<>> before the write

resolverVars == <<rows, spacing_sec, buffer_sec, offset, resolver, cues, rows_in,
                  first_cues, runs, fade_in_ms, fade_out_ms>>
alignerVars  == <<whisper_rows, genius_lines, min_similarity, used, out_rows,
                  chosen, out_file, align_pc>>
captureVars  == <<cap_state, texts, idx, clock, t0, starts, marks, shown, typed,
                  armed_at>>
renderVars   == <<rv_pc, csv_file, csv_prior, ass_file, ffmpeg_started, rv_starts,
                  choice>>
formatVars   == <<fmt_in, fmt_fn, fmt_out>>
readerVars   == <<csv_in, reader, read_out>>
syncVars     == <<clear_cache, vocals_wav, json_custom, json_default, sync_pc,
                   vocals_path, json_out, ran, lyrics_file, csv_out>>
toolVars     == <<formatVars, readerVars, syncVars>>
vars == <<resolverVars, alignerVars, captureVars, renderVars, toolVars>>

(***************************************************************************)
(* Bounds of the model.                                                    *)
(***************************************************************************)
MaxAnchors == 3
MaxSegments == 3
MaxLines == 2
MaxBlocks == 3
MaxClock == 4

(***************************************************************************)
(* Generic helpers.                                                        *)
(***************************************************************************)
Max2(a, b) == IF a >= b THEN a ELSE b

SeqsUpTo(S, n) == UNION {[1..k -> S] : k \in 0..n}

IsSorted(s) == \A i \in 1..(Len(s) - 1) : s[i] <= s[i + 1]

(***************************************************************************)
(* Program constants (milliseconds).                                       *)
(***************************************************************************)
MIN_VISIBLE == 200
CORE_MIN_VISIBLE == 200
CORE_TAIL == 8000
BA_MIN_VISIBLE == 100
BA_SPACING == 100
BA_TAIL == 3000
TITLE_MERGE_BEFORE == 2000
TITLE_MIN_END == 2500
TITLE_END_TRIM == 50
SPACING == 250
BUFFER_SEC == 500
FADE_IN == 100
FADE_OUT == 100
GEN_SPACING == 100
GEN_TAIL == 3000

(***************************************************************************)
(* Strings: a text is a sequence of one-character strings.  The characters *)
(* that are not ASCII are written by name ("rsquo" is the right single     *)
(* quote, "ldquo"/"rdquo" the curly double quotes, "mdash"/"ndash").       *)
(***************************************************************************)
Whitespace == {" ", "\t", "\n", "\r"}
Punctuation == {"ldquo", "rdquo", "\"", "(", ")", ",", ".", "?", "!", ":", ";",
                "mdash", "ndash", "[", "]", "{", "}"}
UpperCase == <<"A", "B", "C", "D", "E", "F", "G", "H", "I", "J", "K", "L", "M",
               "N", "O", "P", "Q", "R", "S", "T", "U", "V", "W", "X", "Y", "Z">>
LowerCase == <<"a", "b", "c", "d", "e", "f", "g", "h", "i", "j", "k", "l", "m",
               "n", "o", "p", "q", "r", "s", "t", "u", "v", "w", "x", "y", "z">>

\* str.lower() on one character
LowerChar(c) ==
    IF \E i \in 1..26 : UpperCase[i] = c
    THEN LowerCase[CHOOSE i \in 1..26 : UpperCase[i] = c]
    ELSE c

\* str.lower()
Lower(s) == [i \in 1..Len(s) |-> LowerChar(s[i])]

SetMin(S) == CHOOSE x \in S : \A y \in S : x <= y
SetMax(S) == CHOOSE x \in S : \A y \in S : x >= y

\* str.strip()
Strip(s) ==
    LET solid == {i \in 1..Len(s) : s[i] \notin Whitespace}
    IN  IF solid = {} THEN <<>> ELSE SubSeq(s, SetMin(solid), SetMax(solid))

RECURSIVE DropLeadingWs(_)
DropLeadingWs(s) ==
    IF s # <<>> /\ Head(s) \in Whitespace THEN DropLeadingWs(Tail(s)) ELSE s

\* re.sub(r"\s+", " ", s)
RECURSIVE CollapseWs(_)
CollapseWs(s) ==
    IF s = <<>> THEN <<>>
    ELSE IF Head(s) \in Whitespace
         THEN <<" ">> \o CollapseWs(DropLeadingWs(Tail(s)))
         ELSE <<Head(s)>> \o CollapseWs(Tail(s))

\* src/scripts/override_lyrics_with_genius.py: normalize
normalize(s) ==
    LET s1 == [i \in 1..Len(Strip(s)) |->
                  IF Strip(s)[i] = "rsquo" THEN "'" ELSE Strip(s)[i]]
        s2 == SelectSeq(s1, LAMBDA c : c \notin Punctuation)
        s3 == CollapseWs(s2)
    IN  Lower(s3)

\* str.replace("\\n", "\\N"): backslash-n becomes backslash-N, left to right
RECURSIVE ReplaceEscN(_)
ReplaceEscN(s) ==
    IF Len(s) < 2 THEN s
    ELSE IF s[1] = "\\" /\ s[2] = "n"
         THEN <<"\\", "N">> \o ReplaceEscN(SubSeq(s, 3, Len(s)))
         ELSE <<s[1]>> \o ReplaceEscN(Tail(s))

\* str.replace("\\n", "\n"): backslash-n becomes a line break
RECURSIVE ExpandEscN(_)
ExpandEscN(s) ==
    IF Len(s) < 2 THEN s
    ELSE IF s[1] = "\\" /\ s[2] = "n"
         THEN <<"\n">> \o ExpandEscN(SubSeq(s, 3, Len(s)))
         ELSE <<s[1]>> \o ExpandEscN(Tail(s))

\* str.replace("\r", "").replace("\n", "\\N")
RECURSIVE BreaksToToken(_)
BreaksToToken(s) ==
    IF s = <<>> THEN <<>>
    ELSE IF Head(s) = "\r" THEN BreaksToToken(Tail(s))
    ELSE IF Head(s) = "\n" THEN <<"\\", "N">> \o BreaksToToken(Tail(s))
    ELSE <<Head(s)>> \o BreaksToToken(Tail(s))

(***************************************************************************)
(* Timecodes.  A formatted H:MM:SS.cc timecode is the record [h, m, cs],   *)
(* cs being the seconds field in hundredths (the "%05.2f" rounding).       *)
(***************************************************************************)
RoundToCs(ms) == (ms + 5) \div 10

\* src/scripts/karaoke_time.py: ass_time_from_seconds
ass_time_from_seconds(sec) ==
    LET s0 == IF sec < 0 THEN 0 ELSE sec
        h  == s0 \div 3600000
        m  == (s0 % 3600000) \div 60000
        s  == s0 - h * 3600000 - m * 60000
    IN  [h |-> h, m |-> m, cs |-> RoundToCs(s)]

\* src/karaoke_time.py: fmt_time
fmt_time(sec) ==
    LET s0 == IF sec < 0 THEN 0 ELSE sec
        h  == s0 \div 3600000
        m  == (s0 % 3600000) \div 60000
        s  == s0 % 60000
    IN  [h |-> h, m |-> m, cs |-> RoundToCs(s)]

\* src/karaoke_core.py: fmt_time_ass
fmt_time_ass(sec) ==
    LET s0 == IF sec < 0 THEN 0 ELSE sec
        h  == s0 \div 3600000
        m  == (s0 % 3600000) \div 60000
        s  == s0 % 60000
    IN  [h |-> h, m |-> m, cs |-> RoundToCs(s)]

\* src/scripts/karaoke_core.py: time_to_ass (floor division, no clamp at 0)
time_to_ass(seconds) ==
    [h  |-> seconds \div 3600000,
     m  |-> (seconds % 3600000) \div 60000,
     cs |-> RoundToCs(seconds % 60000)]

\* The instant a timecode denotes, in milliseconds.
TcMs(tc) == tc.h * 3600000 + tc.m * 60000 + tc.cs * 10

(***************************************************************************)
(* Interval resolver.                                                      *)
(***************************************************************************)
\* A dialogue event: the times computed, the timecodes written, the text, and
\* fad, the fade tag written before the text (NoFade: none is written).
NoFade == <<>>
Cue(start, end, st, et, text, kind) ==
    [start |-> start, end |-> end, st |-> st, et |-> et, text |-> text, kind |-> kind,
     fad |-> NoFade]

\* src/karaoke_time.py line 125: "{\\fad(" + str(max(0, int(fade_in_ms))) + "," + ...
fad_tag(in_ms, out_ms) == <<Max2(0, in_ms), Max2(0, out_ms)>>

\* src/karaoke_core.py line 82: f"{{\\fad({fade_in_ms},{fade_out_ms})}}{text}"
core_fad_tag(in_ms, out_ms) == <<in_ms, out_ms>>

\* Mutant of core_end: the minimum-visible clamp is left out.
core_end_mut(ss, i, spacing, buffer) ==
    IF i < Len(ss)
    THEN ss[i + 1] - spacing
    ELSE ss[i] + CORE_TAIL - buffer

\* src/karaoke_core.py: the end of cue i in compute_rows_from_starts
core_end(ss, i, spacing, buffer) ==
    IF i < Len(ss)
    THEN Max2(ss[i] + CORE_MIN_VISIBLE, ss[i + 1] - spacing)
    ELSE ss[i] + CORE_TAIL - buffer

\* src/karaoke_core.py: compute_rows_from_starts
compute_rows_from_starts(ss, tx, spacing, buffer) ==
    [i \in 1..Len(ss) |->
        [start |-> ss[i], end |-> core_end(ss, i, spacing, buffer), text |-> tx[i]]]

\* src/karaoke_core.py: write_ass, one Dialogue line per row
core_write_ass(rs, in_ms, out_ms) ==
    [i \in 1..Len(rs) |->
        [Cue(rs[i].start, rs[i].end, fmt_time_ass(rs[i].start), fmt_time_ass(rs[i].end),
             rs[i].text, "lyric") EXCEPT !.fad = core_fad_tag(in_ms, out_ms)]]

\* Mutant of adjusted_end: the spacing is added to the next start.
adjusted_end_mut(rs, i, buffer, spacing) ==
    LET cand == IF i < Len(rs) THEN rs[i + 1].start + spacing
                               ELSE rs[i].end - buffer
    IN  Max2(cand, rs[i].start + MIN_VISIBLE)

\* src/karaoke_time.py: adjusted_end of row i in write_ass
adjusted_end(rs, i, buffer, spacing) ==
    LET cand == IF i < Len(rs) THEN rs[i + 1].start - spacing
                               ELSE rs[i].end - buffer
    IN  Max2(cand, rs[i].start + MIN_VISIBLE)

\* Mutant of write_ass: the buffer and the spacing change places.
write_ass_mut(rs, buffer, spacing, in_ms, out_ms) ==
    [i \in 1..Len(rs) |->
        LET e == adjusted_end(rs, i, spacing, buffer)
        IN  [Cue(rs[i].start, e, fmt_time(rs[i].start), fmt_time(e), rs[i].text, "lyric")
                EXCEPT !.fad = fad_tag(in_ms, out_ms)]]

\* src/karaoke_time.py: write_ass
write_ass(rs, buffer, spacing, in_ms, out_ms) ==
    [i \in 1..Len(rs) |->
        LET e == adjusted_end(rs, i, buffer, spacing)
        IN  [Cue(rs[i].start, e, fmt_time(rs[i].start), fmt_time(e), rs[i].text, "lyric")
                EXCEPT !.fad = fad_tag(in_ms, out_ms)]]

\* src/scripts/karaoke_time.py: rows.sort(key=lambda x: x["t"]) (stable)
RECURSIVE SortByT(_)
SortByT(rs) ==
    IF Len(rs) <= 1 THEN rs
    ELSE LET init == SortByT(SubSeq(rs, 1, Len(rs) - 1))
             r    == rs[Len(rs)]
             k    == Cardinality({j \in 1..Len(init) : init[j].start <= r.start})
         IN  SubSeq(init, 1, k) \o <<r>> \o SubSeq(init, k + 1, Len(init))

\* src/scripts/karaoke_time.py: build_ass, "for r in rows: r['t'] = r['t'] + offset"
apply_offset(rs, off) ==
    [i \in 1..Len(rs) |-> [rs[i] EXCEPT !.start = rs[i].start + off]]

\* Mutant of ba_end: the minimum visible duration is not added to the start.
ba_end_mut(rs, i) ==
    IF i + 1 <= Len(rs)
    THEN Max2(BA_MIN_VISIBLE, rs[i + 1].start - BA_SPACING)
    ELSE rs[i].start + BA_TAIL

\* src/scripts/karaoke_time.py: end of lyric row i in build_ass
ba_end(rs, i) ==
    IF i + 1 <= Len(rs)
    THEN Max2(rs[i].start + BA_MIN_VISIBLE, rs[i + 1].start - BA_SPACING)
    ELSE rs[i].start + BA_TAIL

\* src/scripts/karaoke_time.py: title_text, "T" and "A" standing for the title
\* and the artist: f"{title}\\Nby\\N{artist}\\N\\N{rows[0]['text']}"
TitleCompact == <<"T", "\\", "N", "b", "y", "\\", "N", "A", "\\", "N", "\\", "N">>
\* f"{title}\\N\\Nby\\N\\N{artist}"
TitleSpacious == <<"T", "\\", "N", "\\", "N", "b", "y", "\\", "N", "\\", "N", "A">>

\* src/scripts/karaoke_time.py: build_ass, the events of the document
build_ass(rs0, off) ==
    LET rs          == apply_offset(rs0, off)
        first_start == IF Len(rs) > 0 THEN rs[1].start ELSE 0
        skip_first  == first_start < TITLE_MERGE_BEFORE /\ Len(rs) > 0
        tc_start    == 0 + off
        tc_end      == Max2(TITLE_MIN_END + off, first_start)
        title       == Cue(tc_start, tc_end - TITLE_END_TRIM,
                           ass_time_from_seconds(tc_start),
                           ass_time_from_seconds(tc_end - TITLE_END_TRIM),
                           IF skip_first THEN TitleCompact \o rs[1].text ELSE TitleSpacious,
                           "title")
        lyric(i)    == Cue(rs[i].start, ba_end(rs, i),
                           ass_time_from_seconds(rs[i].start),
                           ass_time_from_seconds(ba_end(rs, i)),
                           BreaksToToken(rs[i].text), "lyric")
        from        == IF skip_first THEN 2 ELSE 1
    IN  <<title>> \o [k \in 1..(Len(rs) - from + 1) |-> lyric(k + from - 1)]

\* Mutant of gen_end: the gap before the next line is also cut from the last.
gen_end_mut(rs, i) ==
    IF i + 1 <= Len(rs) THEN rs[i + 1].start - GEN_SPACING
                        ELSE rs[i].start + GEN_TAIL - GEN_SPACING

\* src/scripts/karaoke_core.py: the end of line i in generate_ass
gen_end(rs, i) ==
    IF i + 1 <= Len(rs) THEN rs[i + 1].start - GEN_SPACING ELSE rs[i].start + GEN_TAIL

\* Mutant of generate_ass: the loop stops one line short.
generate_ass_mut(rs) ==
    [i \in 1..(Len(rs) - 1) |->
        Cue(rs[i].start, gen_end(rs, i), time_to_ass(rs[i].start),
            time_to_ass(gen_end(rs, i)), rs[i].text, "lyric")]

\* src/scripts/karaoke_core.py: generate_ass
generate_ass(rs) ==
    [i \in 1..Len(rs) |->
        Cue(rs[i].start, gen_end(rs, i), time_to_ass(rs[i].start),
            time_to_ass(gen_end(rs, i)), rs[i].text, "lyric")]

\* The text field of a row as each reader loads it.
\* src/karaoke_time.py: load_csv, row[1].strip().replace("\\n", "\n")
load_csv_text(t) == ExpandEscN(Strip(t))
\* src/karaoke_core.py: load_lyrics_txt, raw.strip() then replace("\\n", "\n")
load_lyrics_text(t) == ExpandEscN(Strip(t))
\* src/scripts/karaoke_time.py: read_rows, row[1].strip()
read_rows_text(t) == Strip(t)
\* src/scripts/karaoke_core.py: read_csv_timing, r["text"].strip()
read_csv_timing_text(t) == Strip(t)

\* The rows each reader returns for the rows of a file.
load_csv(rs) ==
    [i \in 1..Len(rs) |-> [rs[i] EXCEPT !.text = load_csv_text(rs[i].text)]]
load_lyrics_txt(rs) ==
    [i \in 1..Len(rs) |-> [rs[i] EXCEPT !.text = load_lyrics_text(rs[i].text)]]
read_rows(rs) ==
    SortByT([i \in 1..Len(rs) |-> [rs[i] EXCEPT !.text = read_rows_text(rs[i].text)]])
read_csv_timing(rs) ==
    [i \in 1..Len(rs) |-> [rs[i] EXCEPT !.text = read_csv_timing_text(rs[i].text)]]

HasBreak(t) == \E k \in 1..Len(t) : t[k] = "\n"

(***************************************************************************)
(* Inputs of the resolver.                                                 *)
(***************************************************************************)
AnchorPool  == {0, 100, 200, 2000, 5000}
EndDelta    == {3000, -1000}
SpacingPool == {0, 250, 500}
\* (fade-in, fade-out) in ms as main passes them: --fade-in 0.0 with the default
\* --fade-out-ms 300, and --fade-in 0.3 --fade-out 0.8
FadePool    == {<<0, 300>>, <<300, 800>>}
BufferPool  == {50, 500, 7900}
OffsetPool  == {-1000, 0, 1000}

\* The text fields of a file: the row's number, then plain text, text with the
\* two-character \n escape, or (a quoted field) text with a line break.
TextVariants == {<<"a">>, <<"a", "\\", "n", "b">>, <<"a", "\n", "b">>}
Digits == <<"1", "2", "3", "4", "5", "6", "7", "8", "9">>
RowText(v, i) == <<Digits[i]>> \o v

\* The rows of a timing file, the text field as it stands in the file; d is the
\* row's own duration (3.0 s for a two-column row of load_csv, anything for a
\* three-column row).
RowsOf(ss, d, v) ==
    [i \in 1..Len(ss) |-> [start |-> ss[i], end |-> ss[i] + d, text |-> RowText(v, i)]]

ResolverIdle ==
    /\ rows = <<>> /\ spacing_sec = 0 /\ buffer_sec = 0 /\ offset = 0
    /\ resolver = "idle" /\ cues = <<>>
    /\ rows_in = <<>> /\ first_cues = <<>> /\ runs = 0
    /\ fade_in_ms = 0 /\ fade_out_ms = 0

\* The timing rows of a file, before any resolver is called; the spacing, the
\* buffer and the offset are arguments of the call, drawn by the Run actions.
ResolverInit ==
    /\ \E n \in 0..MaxAnchors :
         \E ss \in [1..n -> AnchorPool], d \in EndDelta, v \in TextVariants :
             rows = RowsOf(ss, d, v)
    /\ spacing_sec = 0 /\ buffer_sec = 0 /\ offset = 0
    /\ resolver = "none"
    /\ cues = <<>>
    /\ rows_in = <<>> /\ first_cues = <<>> /\ runs = 0
    /\ fade_in_ms = 0 /\ fade_out_ms = 0

Starts(rs) == [i \in 1..Len(rs) |-> rs[i].start]
Texts(rs)  == [i \in 1..Len(rs) |-> rs[i].text]

\* src/karaoke_core.py: render_video, lines 98 and 126-127, on the blocks of a
\* lyrics file (splitlines: no line break inside a line) and their timestamps
RunComputeRows ==
    /\ resolver = "none"
    /\ \A i \in 1..Len(rows) : ~HasBreak(rows[i].text)
    /\ \E sp \in SpacingPool, bf \in BufferPool :
         LET loaded == load_lyrics_txt(rows)
             out    == core_write_ass(compute_rows_from_starts(
                           Starts(loaded), Texts(loaded), sp, bf), FADE_IN, FADE_OUT)
         IN  /\ spacing_sec' = sp /\ buffer_sec' = bf
             /\ rows' = loaded /\ rows_in' = loaded
             /\ cues' = out /\ first_cues' = out
    /\ fade_in_ms' = FADE_IN /\ fade_out_ms' = FADE_OUT
    /\ resolver' = "compute_rows_from_starts"
    /\ runs' = 1
    /\ UNCHANGED offset

\* compute_rows_from_starts called once more on the same lists
RerunComputeRows ==
    /\ resolver = "compute_rows_from_starts" /\ runs = 1
    /\ cues' = core_write_ass(compute_rows_from_starts(
                   Starts(rows), Texts(rows), spacing_sec, buffer_sec),
                   fade_in_ms, fade_out_ms)
    /\ runs' = 2
    /\ UNCHANGED <<rows, spacing_sec, buffer_sec, offset, resolver, rows_in, first_cues,
                   fade_in_ms, fade_out_ms>>

\* src/karaoke_time.py: main, rows = load_csv(csv_path) then write_ass(rows, ...)
RunWriteAss ==
    /\ resolver = "none"
    /\ \E sp \in SpacingPool, bf \in BufferPool, fd \in FadePool :
         LET loaded == load_csv(rows)
             out    == write_ass(loaded, bf, sp, fd[1], fd[2])
         IN  /\ spacing_sec' = sp /\ buffer_sec' = bf
             /\ fade_in_ms' = fd[1] /\ fade_out_ms' = fd[2]
             /\ rows' = loaded /\ rows_in' = loaded
             /\ cues' = out /\ first_cues' = out
    /\ resolver' = "write_ass"
    /\ runs' = 1
    /\ UNCHANGED offset

\* Mutant of RunBuildAss: main calls build_ass without testing for no rows.
RunBuildAss_mut ==
    /\ resolver = "none"
    /\ \E off \in OffsetPool :
         LET sorted == read_rows(rows)
         IN  /\ offset' = off
             /\ rows' = apply_offset(sorted, off)
             /\ rows_in' = sorted
             /\ cues' = build_ass(sorted, off)
             /\ first_cues' = build_ass(sorted, off)
             /\ resolver' = "build_ass"
             /\ runs' = 1
    /\ UNCHANGED <<spacing_sec, buffer_sec, fade_in_ms, fade_out_ms>>

\* src/scripts/karaoke_time.py: main, rows = read_rows(csv_path) (sorted), exit(1)
\* on no rows, else build_ass(rows, ...), which adds the offset to the rows
RunBuildAss ==
    /\ resolver = "none"
    /\ \E off \in OffsetPool :
         LET sorted == read_rows(rows)
         IN  /\ offset' = off
             /\ IF Len(sorted) = 0
                THEN /\ resolver' = "exited"
                     /\ runs' = 0
                     /\ UNCHANGED <<rows, rows_in, cues, first_cues>>
                ELSE /\ rows' = apply_offset(sorted, off)
                     /\ rows_in' = sorted
                     /\ cues' = build_ass(sorted, off)
                     /\ first_cues' = build_ass(sorted, off)
                     /\ resolver' = "build_ass"
                     /\ runs' = 1
    /\ UNCHANGED <<spacing_sec, buffer_sec, fade_in_ms, fade_out_ms>>

\* build_ass called once more on the same list
RerunBuildAss ==
    /\ resolver = "build_ass" /\ runs = 1
    /\ rows' = apply_offset(rows, offset)
    /\ cues' = build_ass(rows, offset)
    /\ runs' = 2
    /\ UNCHANGED <<spacing_sec, buffer_sec, offset, resolver, rows_in, first_cues,
                   fade_in_ms, fade_out_ms>>

\* src/scripts/karaoke_core.py: render_video, timed_lines = read_csv_timing(...)
\* then generate_ass(timed_lines, ...)
RunGenerateAss ==
    /\ resolver = "none"
    /\ LET loaded == read_csv_timing(rows)
           out    == generate_ass(loaded)
       IN  /\ rows' = loaded /\ rows_in' = loaded
           /\ cues' = out /\ first_cues' = out
    /\ resolver' = "generate_ass"
    /\ runs' = 1
    /\ UNCHANGED <<spacing_sec, buffer_sec, offset, fade_in_ms, fade_out_ms>>

(***************************************************************************)
(* difflib.SequenceMatcher(None, a, b).ratio(), no junk: the longest       *)
(* matching block (earliest in a, then earliest in b), then the same on    *)
(* the pieces to its left and to its right.                                *)
(***************************************************************************)
MatchingBlocks(a, b) ==
    {t \in (1..Len(a)) \X (1..Len(b)) \X (1..Len(a)) :
        /\ t[1] + t[3] - 1 <= Len(a)
        /\ t[2] + t[3] - 1 <= Len(b)
        /\ SubSeq(a, t[1], t[1] + t[3] - 1) = SubSeq(b, t[2], t[2] + t[3] - 1)}

find_longest_match(a, b) ==
    LET blocks  == MatchingBlocks(a, b)
        k       == SetMax({t[3] : t \in blocks})
        longest == {t \in blocks : t[3] = k}
        i       == SetMin({t[1] : t \in longest})
        j       == SetMin({t[2] : t \in {u \in longest : u[1] = i}})
    IN  IF blocks = {} THEN <<1, 1, 0>> ELSE <<i, j, k>>

RECURSIVE MatchedChars(_, _)
MatchedChars(a, b) ==
    LET m == find_longest_match(a, b)
    IN  IF m[3] = 0 THEN 0
        ELSE m[3]
             + MatchedChars(SubSeq(a, 1, m[1] - 1), SubSeq(b, 1, m[2] - 1))
             + MatchedChars(SubSeq(a, m[1] + m[3], Len(a)), SubSeq(b, m[2] + m[3], Len(b)))

\* A score is the fraction num/den, den > 0.
ratio(a, b) ==
    IF Len(a) + Len(b) = 0 THEN [num |-> 1, den |-> 1]
    ELSE [num |-> 2 * MatchedChars(a, b), den |-> Len(a) + Len(b)]

ScoreGt(x, y) == x.num * y.den > y.num * x.den
\* score >= min_similarity, the threshold in hundredths
ScoreAtLeast(x, hundredths) == x.num * 100 >= hundredths * x.den


(***************************************************************************)
(* Text aligner.                                                           *)
(***************************************************************************)
NoLine == 0

SegmentPool == {[timestamp |-> "0.00", text |-> <<"a", "b">>],
                [timestamp |-> "1.50", text |-> <<"B">>],
                [timestamp |-> "1.50", text |-> <<>>],
                [timestamp |-> "2.75", text |-> <<"\\", "n">>]}
GeniusTexts == {<<"a", "b">>, <<"b", ",">>, <<"a", "\\", "n">>}
MinSimPool  == {0, 30, 80}

\* best_match_for, lines 38 and 42: the score of an ASR text against a line,
\* tabulated once over the texts of the model.
ScoreTable ==
    [line \in {w.text : w \in SegmentPool} |->
        [gl \in GeniusTexts |-> ratio(normalize(line), normalize(gl))]]

Score(line, gl) == ScoreTable[line][gl]

\* src/scripts/override_lyrics_with_genius.py: best_match_for, the loop from line i on
RECURSIVE best_match_from(_, _, _, _, _)
best_match_from(i, line, gls, usedSet, best) ==
    IF i > Len(gls) THEN best
    ELSE IF i \in usedSet
         THEN best_match_from(i + 1, line, gls, usedSet, best)
         ELSE LET score == Score(line, gls[i])
              IN  IF ScoreGt(score, best.score)
                  THEN best_match_from(i + 1, line, gls, usedSet,
                                       [idx |-> i, score |-> score])
                  ELSE best_match_from(i + 1, line, gls, usedSet, best)

\* src/scripts/override_lyrics_with_genius.py: best_match_for
best_match_for(line, gls, usedSet) ==
    best_match_from(1, line, gls, usedSet,
                    [idx |-> NoLine, score |-> [num |-> 0, den |-> 1]])

\* Mutant of remaining: consumed lines are not filtered out.
remaining_mut(gls, usedSet) == 1..Len(gls)

\* src/scripts/override_lyrics_with_genius.py: remaining = [i ... if i not in used]
remaining(gls, usedSet) == {i \in 1..Len(gls) : i \notin usedSet}

\* Mutant of first_unused: remaining[-1].
first_unused_mut(gls, usedSet) == SetMax(remaining(gls, usedSet))

\* remaining[0]
first_unused(gls, usedSet) == SetMin(remaining(gls, usedSet))

\* src/scripts/override_lyrics_with_genius.py: one iteration of main's loop:
\* how the text of segment w is chosen, and which line it consumes
choose_for(w, gls, usedSet, minsim) ==
    LET best == best_match_for(w.text, gls, usedSet)
    IN  IF best.idx # NoLine /\ ScoreAtLeast(best.score, minsim)
        THEN [how |-> "match", line |-> best.idx, text |-> gls[best.idx]]
        ELSE IF remaining(gls, usedSet) # {}
             THEN [how |-> "fallback", line |-> first_unused(gls, usedSet),
                   text |-> gls[first_unused(gls, usedSet)]]
             ELSE [how |-> "keep", line |-> NoLine, text |-> w.text]

\* Mutant of consume: the line is not added to the consumed set.
consume_mut(usedSet, c) == usedSet

\* used.add(idx)
consume(usedSet, c) == IF c.line = NoLine THEN usedSet ELSE usedSet \cup {c.line}

\* Mutant of out_row: the timestamp column is not the segment's.
out_row_mut(w, c) == [timestamp |-> "0.00", text |-> ReplaceEscN(c.text)]

\* out_rows.append({"timestamp": ..., "text": chosen.replace("\\n", "\\N")})
out_row(w, c) == [timestamp |-> w.timestamp, text |-> ReplaceEscN(c.text)]

CsvHeader    == [timestamp |-> "timestamp", text |-> "text"]

AlignerIdle ==
    /\ whisper_rows = <<>> /\ genius_lines = <<>> /\ min_similarity = 0
    /\ used = {} /\ out_rows = <<>> /\ chosen = <<>> /\ out_file = <<>>
    /\ align_pc = "idle"

\* main, lines 55-57: both files read, nothing consumed yet
AlignerInit ==
    /\ whisper_rows \in SeqsUpTo(SegmentPool, MaxSegments)
    /\ genius_lines \in SeqsUpTo(GeniusTexts, MaxLines)
    /\ min_similarity \in MinSimPool
    /\ used = {} /\ out_rows = <<>> /\ chosen = <<>> /\ out_file = <<>>
    /\ align_pc = "loop"

\* main, lines 59-70: one iteration of "for w in whisper_rows"
AlignStep ==
    /\ align_pc = "loop"
    /\ Len(out_rows) < Len(whisper_rows)
    /\ LET w == whisper_rows[Len(out_rows) + 1]
           c == choose_for(w, genius_lines, used, min_similarity)
       IN  /\ used' = consume(used, c)
           /\ out_rows' = Append(out_rows, out_row(w, c))
           /\ chosen' = Append(chosen, c)
    /\ UNCHANGED <<whisper_rows, genius_lines, min_similarity, out_file, align_pc>>

\* main, lines 72-76: the loop is over, the CSV is written
AlignWrite ==
    /\ align_pc = "loop"
    /\ Len(out_rows) = Len(whisper_rows)
    /\ out_file' = <<CsvHeader>> \o out_rows
    /\ align_pc' = "written"
    /\ UNCHANGED <<whisper_rows, genius_lines, min_similarity, used, out_rows, chosen>>

(***************************************************************************)
(* Capture: tap_collect_times.                                             *)
(***************************************************************************)
Unset == -1
InputPool == {<<>>, <<"q">>, <<" ", "Q">>, <<"u">>}

\* s.strip().lower() == "q"
is_quit(s) == Lower(Strip(s)) = <<"q">>

\* Mutant of elapsed: t0 is not subtracted.
elapsed_mut(now, start) == now

\* t = time.perf_counter() - t0
elapsed(now, start) == now - start

CaptureIdle ==
    /\ cap_state = "idle" /\ texts = <<>> /\ idx = 0 /\ clock = 0 /\ t0 = Unset
    /\ starts = <<>> /\ marks = <<>> /\ shown = <<>> /\ typed = <<>>
    /\ armed_at = Unset

\* tap_collect_times entered: the banner is printed, the start prompt waits
CaptureInit ==
    /\ cap_state = "WaitingForStart"
    /\ \E n \in 0..MaxBlocks : texts = [i \in 1..n |-> i]
    /\ idx = 0 /\ clock = 0 /\ t0 = Unset
    /\ starts = <<>> /\ marks = <<>> /\ shown = <<>> /\ typed = <<>>
    /\ armed_at = Unset

\* time passes while input() blocks
Tick ==
    /\ cap_state \in {"WaitingForStart", "AwaitingMark"}
    /\ clock < MaxClock
    /\ clock' = clock + 1
    /\ UNCHANGED <<cap_state, texts, idx, t0, starts, marks, shown, typed, armed_at>>

\* lines 53-58: input("Ready? ...") returns s (not looked at), the clock is armed,
\* the first block is printed (or the loop is empty and the function returns)
StartInput(s) ==
    /\ cap_state = "WaitingForStart"
    /\ typed' = Append(typed, s)
    /\ t0' = clock
    /\ armed_at' = clock
    /\ starts' = <<>>
    /\ IF Len(texts) = 0
       THEN cap_state' = "Done" /\ shown' = shown
       ELSE cap_state' = "AwaitingMark" /\ shown' = Append(shown, 1)
    /\ UNCHANGED <<texts, idx, clock, marks>>

\* Mutant of MarkInput: "u" is an undo command that pops the last anchor.
MarkInput_mut(s) ==
    /\ cap_state = "AwaitingMark"
    /\ typed' = Append(typed, s)
    /\ IF is_quit(s)
       THEN /\ cap_state' = "Aborted"
            /\ UNCHANGED <<idx, starts, marks, shown>>
       ELSE IF s = <<"u">>
            THEN /\ starts' = SubSeq(starts, 1, Len(starts) - 1)
                 /\ marks' = SubSeq(marks, 1, Len(marks) - 1)
                 /\ idx' = IF idx > 0 THEN idx - 1 ELSE idx
                 /\ shown' = Append(shown, IF idx > 0 THEN idx ELSE 1)
                 /\ cap_state' = "AwaitingMark"
            ELSE /\ starts' = Append(starts, elapsed(clock, t0))
                 /\ marks' = Append(marks, clock)
                 /\ idx' = idx + 1
                 /\ IF idx + 1 = Len(texts)
                    THEN cap_state' = "Done" /\ shown' = shown
                    ELSE cap_state' = "AwaitingMark" /\ shown' = Append(shown, idx + 2)
    /\ UNCHANGED <<texts, clock, t0, armed_at>>

\* lines 59-64: input("Press Enter to timestamp ...") returns s
MarkInput(s) ==
    /\ cap_state = "AwaitingMark"
    /\ typed' = Append(typed, s)
    /\ IF is_quit(s)
       THEN /\ cap_state' = "Aborted"
            /\ UNCHANGED <<idx, starts, marks, shown>>
       ELSE /\ starts' = Append(starts, elapsed(clock, t0))
            /\ marks' = Append(marks, clock)
            /\ idx' = idx + 1
            /\ IF idx + 1 = Len(texts)
               THEN cap_state' = "Done" /\ shown' = shown
               ELSE cap_state' = "AwaitingMark" /\ shown' = Append(shown, idx + 2)
    /\ UNCHANGED <<texts, clock, t0, armed_at>>

(***************************************************************************)
(* render_video of karaoke_core.py: reuse or capture the timestamps, save  *)
(* them, write the subtitle document, start ffmpeg.                        *)
(***************************************************************************)
NoCsv == [exists |-> FALSE, rows |-> <<>>]
NoAss == [written |-> FALSE, cues |-> <<>>]

\* A row of lyrics_timing.csv: ok says float(line[0]) parses.
CsvRow(ok, t, lyric) == [ok |-> ok, t |-> t, lyric |-> lyric]

\* The timing file render_video may find: none, a header only, or rows of an
\* earlier run of which one was edited into a non-number.
CsvPool ==
    {NoCsv,
     [exists |-> TRUE, rows |-> <<>>],
     [exists |-> TRUE, rows |-> <<CsvRow(TRUE, 1, 1), CsvRow(FALSE, 0, 2), CsvRow(TRUE, 3, 3)>>]}

ChoicePool == {<<>>, <<"Y">>, <<"y", "e", "s", " ">>, <<"n">>}

\* choice = input(...).strip().lower(); choice in ("", "y", "yes")
is_reuse(s) == Lower(Strip(s)) \in {<<>>, <<"y">>, <<"y", "e", "s">>}

\* lines 106-112: the header is skipped, rows whose first field is no float too
read_starts(f) ==
    LET kept == SelectSeq(f.rows, LAMBDA r : r.ok)
    IN  [i \in 1..Len(kept) |-> kept[i].t]

\* lines 120-124: header, then zip(starts, texts)
saved_csv(ss, tx) ==
    [exists |-> TRUE,
     rows   |-> [i \in 1..(IF Len(ss) < Len(tx) THEN Len(ss) ELSE Len(tx)) |->
                    CsvRow(TRUE, ss[i], tx[i])]]

RenderIdle ==
    /\ rv_pc = "idle" /\ csv_file = NoCsv /\ csv_prior = NoCsv /\ ass_file = NoAss
    /\ ffmpeg_started = FALSE /\ rv_starts = <<>> /\ choice = <<>>

\* lines 88-102 and 116: the lyrics are loaded; render_video waits at the reuse
\* prompt if the timing file exists, at the start prompt of tap_collect_times
\* if not
RenderInit ==
    /\ \E n \in 0..MaxBlocks : texts = [i \in 1..n |-> i]
    /\ csv_prior \in CsvPool /\ csv_file = csv_prior
    /\ ass_file = NoAss /\ ffmpeg_started = FALSE /\ rv_starts = <<>> /\ choice = <<>>
    /\ IF csv_prior.exists
       THEN rv_pc = "AskReuse" /\ cap_state = "idle"
       ELSE rv_pc = "Capturing" /\ cap_state = "WaitingForStart"
    /\ idx = 0 /\ clock = 0 /\ t0 = Unset
    /\ starts = <<>> /\ marks = <<>> /\ shown = <<>> /\ typed = <<>>
    /\ armed_at = Unset

\* lines 119-143 with the timestamps ss: the timing file is always written;
\* compute_rows_from_starts raises on more timestamps than texts (texts[i]);
\* otherwise the document is written and ffmpeg is run, which may fail
Persist(ss) ==
    /\ rv_starts' = ss
    /\ csv_file' = saved_csv(ss, texts)
    /\ IF Len(ss) > Len(texts)
       THEN /\ rv_pc' = "Failed"
            /\ UNCHANGED <<ass_file, ffmpeg_started>>
       ELSE /\ ass_file' = [written |-> TRUE,
                            cues    |-> core_write_ass(compute_rows_from_starts(
                                            ss, texts, SPACING, BUFFER_SEC),
                                            FADE_IN, FADE_OUT)]
            /\ ffmpeg_started' = TRUE
            /\ rv_pc' \in {"Rendered", "Failed"}

\* lines 103-114: the answer to "Reuse it? (Y/n)"
RvChoice(s) ==
    /\ rv_pc = "AskReuse"
    /\ choice' = Append(choice, s)
    /\ IF is_reuse(s)
       THEN /\ Persist(read_starts(csv_file))
            /\ UNCHANGED cap_state
       ELSE /\ rv_pc' = "Capturing"
            /\ cap_state' = "WaitingForStart"
            /\ UNCHANGED <<csv_file, ass_file, ffmpeg_started, rv_starts>>
    /\ UNCHANGED <<csv_prior, texts, idx, clock, t0, starts, marks, shown, typed, armed_at>>

\* time passes while tap_collect_times waits for a line
RvTick ==
    /\ rv_pc = "Capturing"
    /\ Tick
    /\ UNCHANGED renderVars

\* the start prompt of tap_collect_times returns inside render_video
RvStart(s) ==
    /\ rv_pc = "Capturing"
    /\ StartInput(s)
    /\ IF Len(texts) = 0
       THEN Persist(<<>>) /\ UNCHANGED <<csv_prior, choice>>
       ELSE UNCHANGED renderVars

\* Mutant of RvMark: the timestamps taken so far are saved before leaving.
RvMark_mut(s) ==
    /\ rv_pc = "Capturing"
    /\ MarkInput(s)
    /\ IF is_quit(s)
       THEN /\ rv_pc' = "Exited"
            /\ csv_file' = saved_csv(starts, texts)
            /\ UNCHANGED <<csv_prior, ass_file, ffmpeg_started, rv_starts, choice>>
       ELSE IF idx + 1 = Len(texts)
            THEN Persist(Append(starts, elapsed(clock, t0))) /\ UNCHANGED <<csv_prior, choice>>
            ELSE UNCHANGED renderVars

\* a block prompt of tap_collect_times returns inside render_video: q leaves the
\* process (sys.exit(1), line 61), the last block's timestamp lets render_video
\* go on to line 119
RvMark(s) ==
    /\ rv_pc = "Capturing"
    /\ MarkInput(s)
    /\ IF is_quit(s)
       THEN /\ rv_pc' = "Exited"
            /\ UNCHANGED <<csv_file, csv_prior, ass_file, ffmpeg_started, rv_starts, choice>>
       ELSE IF idx + 1 = Len(texts)
            THEN Persist(Append(starts, elapsed(clock, t0))) /\ UNCHANGED <<csv_prior, choice>>
            ELSE UNCHANGED renderVars

(***************************************************************************)
(* Reading a timing file.  A file is the sequence of rows the csv module   *)
(* yields, a row a sequence of cells, a cell a text.  A parse returns      *)
(* [ok, v]: ok FALSE stands for the exception float() or int() raises.     *)
(***************************************************************************)
DigitChars == <<"0", "1", "2", "3", "4", "5", "6", "7", "8", "9">>
IsDigit(c) == \E n \in 1..10 : DigitChars[n] = c
DigitVal(c) == (CHOOSE n \in 1..10 : DigitChars[n] = c) - 1
IsDigits(s) == s # <<>> /\ \A i \in 1..Len(s) : IsDigit(s[i])

RECURSIVE IntOf(_)
IntOf(s) == IF s = <<>> THEN 0 ELSE IntOf(SubSeq(s, 1, Len(s) - 1)) * 10 + DigitVal(s[Len(s)])

\* str.split(ch) and re.split(r"[:]", s)
RECURSIVE Split(_, _)
Split(s, ch) ==
    IF \A i \in 1..Len(s) : s[i] # ch THEN <<s>>
    ELSE LET k == SetMin({i \in 1..Len(s) : s[i] = ch})
         IN  <<SubSeq(s, 1, k - 1)>> \o Split(SubSeq(s, k + 1, Len(s)), ch)

\* re.match(r"^\d+(\.\d+)?$", s)
IsNumeric(s) ==
    LET parts == Split(s, ".")
    IN  /\ Len(parts) \in {1, 2}
        /\ \A i \in 1..Len(parts) : IsDigits(parts[i])

Raised == [ok |-> FALSE, v |-> 0]
Value(v) == [ok |-> TRUE, v |-> v]

\* Milliseconds of the decimals d of a number (at most three are kept).
FracMs(d) ==
    LET d3 == SubSeq(d \o <<"0", "0", "0">>, 1, 3)
    IN  IntOf(d3)

\* float(s) in milliseconds, for the texts digits[.digits] with blanks around;
\* any other text of the token pool makes float() raise ValueError.
FloatOf(s) ==
    LET t     == Strip(s)
        parts == Split(t, ".")
    IN  IF ~IsNumeric(t) THEN Raised
        ELSE Value(IntOf(parts[1]) * 1000 + (IF Len(parts) = 2 THEN FracMs(parts[2]) ELSE 0))

\* int(s), for digits with blanks around; ValueError otherwise
IntValueOf(s) == IF IsDigits(Strip(s)) THEN Value(IntOf(Strip(s))) ELSE Raised

\* src/scripts/karaoke_time.py: parse_timestamp
parse_timestamp(ts) ==
    LET t     == Strip(ts)
        parts == [i \in 1..Len(Split(t, ":")) |-> Strip(Split(t, ":")[i])]
    IN  IF IsNumeric(t) THEN FloatOf(t)
        ELSE IF Len(parts) = 3
        THEN LET h == IntValueOf(parts[1])
                 m == IntValueOf(parts[2])
                 x == FloatOf(parts[3])
             IN  IF h.ok /\ m.ok /\ x.ok
                 THEN Value(h.v * 3600000 + m.v * 60000 + x.v) ELSE Raised
        ELSE IF Len(parts) = 2
        THEN LET m == IntValueOf(parts[1])
                 x == FloatOf(parts[2])
             IN  IF m.ok /\ x.ok THEN Value(m.v * 60000 + x.v) ELSE Raised
        ELSE IF FloatOf(t).ok THEN FloatOf(t) ELSE Value(0)

TIMESTAMP == <<"t", "i", "m", "e", "s", "t", "a", "m", "p">>
TEXT == <<"t", "e", "x", "t">>
NoneValue == <<"None">>

\* csv.DictReader: the value a row has under a key of the header (the last
\* column of that name); a row shorter than the header has None there.
Field(header, row, key) ==
    LET cols == {i \in 1..Len(header) : header[i] = key}
    IN  IF cols = {} THEN [has |-> FALSE, v |-> NoneValue]
        ELSE IF SetMax(cols) > Len(row) THEN [has |-> TRUE, v |-> NoneValue]
        ELSE [has |-> TRUE, v |-> row[SetMax(cols)]]

\* What one row of the file comes to: an anchor (src is the row's place in the
\* file), nothing, or an exception.
Anchor(t, text, src) == [kind |-> "row", t |-> t, text |-> text, src |-> src]
Skipped == [kind |-> "skip"]
Raises == [kind |-> "raise"]

\* The loop over the rows: an exception in any row leaves the function.
Collect(results) ==
    IF \E i \in 1..Len(results) : results[i].kind = "raise"
    THEN [status |-> "raised", rows |-> <<>>]
    ELSE [status |-> "ok", rows |-> SelectSeq(results, LAMBDA r : r.kind = "row")]

\* The rows csv.DictReader yields after the header (blank lines are skipped).
DataRows(f) == IF f = <<>> THEN <<>> ELSE Tail(f)

\* src/scripts/karaoke_core.py: read_csv_timing, one row
read_csv_timing_row(header, row, i) ==
    LET ts  == Field(header, row, TIMESTAMP)
        txt == Field(header, row, TEXT)
    IN  IF row = <<>> THEN Skipped
        ELSE IF ~ts.has \/ ts.v = NoneValue \/ ~FloatOf(ts.v).ok THEN Raises
        ELSE IF ~txt.has \/ txt.v = NoneValue THEN Raises
        ELSE IF Strip(txt.v) = <<>> THEN Skipped
        ELSE Anchor(FloatOf(ts.v).v, Strip(txt.v), i)

read_csv_timing_file(f) ==
    Collect([i \in 1..Len(DataRows(f)) |-> read_csv_timing_row(f[1], f[i + 1], i + 1)])

\* src/scripts/override_lyrics_with_genius.py: read_whisper_csv, one row
read_whisper_csv_row(header, row, i) ==
    LET ts  == Field(header, row, TIMESTAMP)
        txt == Field(header, row, TEXT)
    IN  IF row = <<>> THEN Skipped
        ELSE IF ~ts.has \/ ~txt.has THEN Raises
        ELSE Anchor(ts.v, txt.v, i)

read_whisper_csv(f) ==
    Collect([i \in 1..Len(DataRows(f)) |-> read_whisper_csv_row(f[1], f[i + 1], i + 1)])

\* str.strip('"')
StripQuote(s) ==
    LET solid == {i \in 1..Len(s) : s[i] # "\""}
    IN  IF solid = {} THEN <<>> ELSE SubSeq(s, SetMin(solid), SetMax(solid))

\* list.sort(key=lambda x: x["t"]) (stable)
RECURSIVE sort_by_t(_)
sort_by_t(rs) ==
    IF Len(rs) <= 1 THEN rs
    ELSE LET init == sort_by_t(SubSeq(rs, 1, Len(rs) - 1))
             r    == rs[Len(rs)]
             k    == Cardinality({j \in 1..Len(init) : init[j].t <= r.t})
         IN  SubSeq(init, 1, k) \o <<r>> \o SubSeq(init, k + 1, Len(init))

\* src/scripts/karaoke_time.py: read_rows, one row under a header
read_rows_dict_row(header, row, i) ==
    LET ts   == Field(header, row, TIMESTAMP)
        txt  == Field(header, row, TEXT)
        tok  == IF ts.has THEN ts.v ELSE <<"0">>
        text == IF ~txt.has \/ txt.v = NoneValue THEN <<>> ELSE Strip(txt.v)
    IN  IF row = <<>> THEN Skipped
        ELSE IF tok = NoneValue \/ ~parse_timestamp(tok).ok THEN Raises
        ELSE Anchor(parse_timestamp(tok).v, text, i)

\* src/scripts/karaoke_time.py: read_rows, one row of a file without header
read_rows_plain_row(row, i) ==
    IF Len(row) < 2 THEN Skipped
    ELSE IF ~parse_timestamp(row[1]).ok THEN Raises
    ELSE Anchor(parse_timestamp(row[1]).v, Strip(row[2]), i)

\* src/scripts/karaoke_time.py: read_rows.  The cells hold no comma and no
\* quote, so the first cell of the first line is the first cell of the first row.
read_rows_file(f) ==
    LET first_cell == IF f = <<>> \/ f[1] = <<>> THEN <<>> ELSE StripQuote(Strip(f[1][1]))
        has_header == ~IsNumeric(first_cell)
        got == IF has_header
               THEN Collect([i \in 1..Len(DataRows(f)) |-> read_rows_dict_row(f[1], f[i + 1], i + 1)])
               ELSE Collect([i \in 1..Len(f) |-> read_rows_plain_row(f[i], i)])
    IN  [status |-> got.status,
         rows   |-> sort_by_t(SelectSeq(got.rows, LAMBDA r : r.text # <<>>))]

\* src/karaoke_time.py: load_csv, one row; the bare except skips the row
load_csv_row(row, i) ==
    IF Len(row) = 2
    THEN LET parts == Split(row[1], ":")
         IN  IF Len(parts) # 2 \/ ~FloatOf(parts[1]).ok \/ ~FloatOf(parts[2]).ok THEN Skipped
             ELSE LET start == FloatOf(parts[1]).v * 60 + FloatOf(parts[2]).v
                  IN  [kind |-> "row", t |-> start, end |-> start + 3000,
                       text |-> load_csv_text(row[2]), src |-> i]
    ELSE IF Len(row) >= 3
    THEN IF ~FloatOf(row[1]).ok \/ ~FloatOf(row[2]).ok THEN Skipped
         ELSE [kind |-> "row", t |-> FloatOf(row[1]).v, end |-> FloatOf(row[2]).v,
               text |-> load_csv_text(row[3]), src |-> i]
    ELSE Skipped

load_csv_file(f) == Collect([i \in 1..Len(f) |-> load_csv_row(f[i], i)])

(***************************************************************************)
(* The four timecode formatters, each called on one time.                  *)
(***************************************************************************)
NoTimecode == [h |-> 0, m |-> 0, cs |-> -1]

\* Times around the second, the minute and the hour, 4 or 6 ms off a hundredth
\* (a time exactly 5 ms off is left out: the float nearest to it decides the
\* rounding of "%05.2f"), and times below 0.
TimeBases == {0, 59000, 3599000, 3600000, 86399000}
TimeDeltas == {0, 4, 994, 996, 1000}
TimePool == {b + d : b \in TimeBases, d \in TimeDeltas} \cup {-1000, -100, -4}

FormatIdle == fmt_in = 0 /\ fmt_fn = "none" /\ fmt_out = NoTimecode

FormatInit == fmt_in \in TimePool /\ fmt_fn = "none" /\ fmt_out = NoTimecode

\* src/karaoke_time.py: fmt_time(s)
CallFmtTime ==
    /\ fmt_fn = "none"
    /\ fmt_fn' = "fmt_time" /\ fmt_out' = fmt_time(fmt_in)
    /\ UNCHANGED fmt_in

\* src/karaoke_core.py: fmt_time_ass(s)
CallFmtTimeAss ==
    /\ fmt_fn = "none"
    /\ fmt_fn' = "fmt_time_ass" /\ fmt_out' = fmt_time_ass(fmt_in)
    /\ UNCHANGED fmt_in

\* src/scripts/karaoke_core.py: time_to_ass(seconds)
CallTimeToAss ==
    /\ fmt_fn = "none"
    /\ fmt_fn' = "time_to_ass" /\ fmt_out' = time_to_ass(fmt_in)
    /\ UNCHANGED fmt_in

\* src/scripts/karaoke_time.py: ass_time_from_seconds(sec)
CallAssTimeFromSeconds ==
    /\ fmt_fn = "none"
    /\ fmt_fn' = "ass_time_from_seconds" /\ fmt_out' = ass_time_from_seconds(fmt_in)
    /\ UNCHANGED fmt_in

(***************************************************************************)
(* The readers of a timing file, each called on one file.                  *)
(***************************************************************************)
MaxRows == 2

TIME == <<"t", "i", "m", "e">>
LYRIC == <<"l", "y", "r", "i", "c">>
StdHeader == <<TIMESTAMP, TEXT>>
AltHeader == <<TIME, LYRIC>>

\* Timestamp tokens: seconds, M:SS, and two that are no timestamp.
TokenPool ==
    {<<"2">>, <<"1", ".", "5">>, <<"0", ":", "0", "2">>, <<"a", "b", "c">>, <<"a", ":", "b">>}

\* Rows of a timing file: a token and a text, a token and a blank text, a
\* token alone.
RowPool ==
    {<<tok, <<"l", "a">>>> : tok \in TokenPool}
        \cup {<<<<"3">>, <<" ">>>>, <<<<"3">>>>}

\* Files: with either header, or without one.
FilePool ==
    {h \o body : h \in {<<StdHeader>>, <<AltHeader>>, <<>>}, body \in SeqsUpTo(RowPool, MaxRows)}

NoRead == [status |-> "none", rows |-> <<>>]

ReaderIdle == csv_in = <<>> /\ reader = "none" /\ read_out = NoRead

ReaderInit == csv_in \in FilePool /\ reader = "none" /\ read_out = NoRead

\* src/scripts/karaoke_core.py: read_csv_timing(csv_path)
CallReadCsvTiming ==
    /\ reader = "none"
    /\ reader' = "read_csv_timing" /\ read_out' = read_csv_timing_file(csv_in)
    /\ UNCHANGED csv_in

\* src/scripts/karaoke_time.py: read_rows(csv_path)
CallReadRows ==
    /\ reader = "none"
    /\ reader' = "read_rows" /\ read_out' = read_rows_file(csv_in)
    /\ UNCHANGED csv_in

\* src/scripts/override_lyrics_with_genius.py: read_whisper_csv(p)
CallReadWhisperCsv ==
    /\ reader = "none"
    /\ reader' = "read_whisper_csv" /\ read_out' = read_whisper_csv(csv_in)
    /\ UNCHANGED csv_in

\* src/karaoke_time.py: load_csv(path)
CallLoadCsv ==
    /\ reader = "none"
    /\ reader' = "load_csv" /\ read_out' = load_csv_file(csv_in)
    /\ UNCHANGED csv_in

\* The reader named, applied to a file.
ReadBy(name, f) ==
    CASE name = "read_csv_timing" -> read_csv_timing_file(f)
      [] name = "read_rows" -> read_rows_file(f)
      [] name = "read_whisper_csv" -> read_whisper_csv(f)
      [] name = "load_csv" -> load_csv_file(f)

(***************************************************************************)
(* Auto-sync: separate_vocals, transcribe_with_whisper,                    *)
(* align_lyrics_to_audio, and the renderer reading the synced CSV.         *)
(* A file is [exists, fresh]: fresh means written by a tool of this run.   *)
(***************************************************************************)
NoFile == [exists |-> FALSE, fresh |-> FALSE]
OldFile == [exists |-> TRUE, fresh |-> FALSE]
NewFile == [exists |-> TRUE, fresh |-> TRUE]

\* What a run of demucs comes to: it writes vocals.wav, exits 0 without
\* writing it, or exits with an error (run_with_progress raises).
DemucsOutcomes == {"wrote", "nothing", "failed"}

\* What a run of whisper comes to: it writes the transcript under one of the
\* two names, exits 0 without writing one, or exits with an error.
WhisperOutcomes == {"custom", "default", "nothing", "failed"}

LinePool == {<<"a">>, <<" ", "b">>, <<" ">>}

SyncIdle ==
    /\ clear_cache = FALSE /\ vocals_wav = NoFile /\ json_custom = NoFile
    /\ json_default = NoFile /\ sync_pc = "start" /\ vocals_path = "none"
    /\ json_out = "none" /\ ran = {} /\ lyrics_file = <<>> /\ csv_out = <<>>

SyncInit ==
    /\ clear_cache \in BOOLEAN
    /\ vocals_wav \in {NoFile, OldFile}
    /\ json_custom \in {NoFile, OldFile}
    /\ json_default \in {NoFile, OldFile}
    /\ lyrics_file \in SeqsUpTo(LinePool, MaxLines)
    /\ sync_pc = "start" /\ vocals_path = "none" /\ json_out = "none"
    /\ ran = {} /\ csv_out = <<>>

\* separate_vocals(song_path, clear_cache)
separate_vocals(o) ==
    /\ sync_pc = "start"
    /\ IF vocals_wav.exists /\ ~clear_cache
       THEN /\ vocals_path' = "vocals.wav" /\ sync_pc' = "separated"
            /\ UNCHANGED <<vocals_wav, ran>>
       ELSE /\ ran' = ran \cup {"demucs"}
            /\ vocals_wav' = IF o = "wrote" THEN NewFile ELSE vocals_wav
            /\ IF o = "failed" \/ ~vocals_wav'.exists
               THEN vocals_path' = "none" /\ sync_pc' = "failed"
               ELSE vocals_path' = "vocals.wav" /\ sync_pc' = "separated"
    /\ UNCHANGED <<clear_cache, json_custom, json_default, json_out, lyrics_file, csv_out>>

\* transcribe_with_whisper(vocals_path, output_dir, clear_cache)
transcribe_with_whisper(o) ==
    /\ sync_pc = "separated"
    /\ IF (json_custom.exists \/ json_default.exists) /\ ~clear_cache
       THEN /\ json_out' = IF json_custom.exists THEN "custom" ELSE "default"
            /\ sync_pc' = "transcribed"
            /\ UNCHANGED <<json_custom, json_default, ran>>
       ELSE /\ ran' = ran \cup {"whisper"}
            /\ json_custom' = IF o = "custom" THEN NewFile ELSE json_custom
            /\ json_default' = IF o = "default" THEN NewFile ELSE json_default
            /\ IF o = "failed" \/ ~(json_custom'.exists \/ json_default'.exists)
               THEN json_out' = "none" /\ sync_pc' = "failed"
               ELSE /\ json_out' = IF json_custom'.exists THEN "custom" ELSE "default"
                    /\ sync_pc' = "transcribed"
    /\ UNCHANGED <<clear_cache, vocals_wav, vocals_path, lyrics_file, csv_out>>

RECURSIVE DigitsOf(_)
DigitsOf(n) ==
    IF n < 10 THEN <<DigitChars[n + 1]>>
    ELSE DigitsOf(n \div 10) \o <<DigitChars[(n % 10) + 1]>>

\* f"{x:.2f}" for x >= 0
fixed2(ms) ==
    LET cs == RoundToCs(ms)
    IN  DigitsOf(cs \div 100) \o <<".">>
            \o <<DigitChars[((cs % 100) \div 10) + 1], DigitChars[(cs % 10) + 1]>>

SyncHeader == <<<<"s", "t", "a", "r", "t">>, <<"e", "n", "d">>, TEXT>>

\* The placeholder timing of align_lyrics_to_audio: 4.0 s per line.
LINE_SEC == 4000

lyrics_lines == SelectSeq([i \in 1..Len(lyrics_file) |-> Strip(lyrics_file[i])], LAMBDA l : l # <<>>)

\* align_lyrics_to_audio(lyrics_file, json_file, csv_out)
align_lyrics_to_audio ==
    /\ sync_pc = "transcribed"
    /\ csv_out' = <<SyncHeader>> \o
           [i \in 1..Len(lyrics_lines) |->
               <<fixed2(LINE_SEC * (i - 1)), fixed2(LINE_SEC * i), lyrics_lines[i]>>]
    /\ sync_pc' = "aligned"
    /\ UNCHANGED <<clear_cache, vocals_wav, json_custom, json_default, vocals_path,
                   json_out, ran, lyrics_file>>

\* scripts/karaoke_generator.py main hands the synced CSV to karaoke_time.py,
\* whose main reads it with read_rows.
ReadSynced ==
    /\ sync_pc = "aligned"
    /\ csv_in' = csv_out /\ reader' = "read_rows" /\ read_out' = read_rows_file(csv_out)
    /\ sync_pc' = "read"
    /\ UNCHANGED <<clear_cache, vocals_wav, json_custom, json_default, vocals_path,
                   json_out, ran, lyrics_file, csv_out>>

ToolsIdle == FormatIdle /\ ReaderIdle /\ SyncIdle

(***************************************************************************)
(* Specifications.                                                         *)
(***************************************************************************)
ResolverNext ==
    \/ RunComputeRows /\ UNCHANGED <<alignerVars, captureVars, renderVars, toolVars>>
    \/ RunWriteAss /\ UNCHANGED <<alignerVars, captureVars, renderVars, toolVars>>
    \/ RunBuildAss /\ UNCHANGED <<alignerVars, captureVars, renderVars, toolVars>>
    \/ RunGenerateAss /\ UNCHANGED <<alignerVars, captureVars, renderVars, toolVars>>
    \/ RerunComputeRows /\ UNCHANGED <<alignerVars, captureVars, renderVars, toolVars>>
    \/ RerunBuildAss /\ UNCHANGED <<alignerVars, captureVars, renderVars, toolVars>>

ResolverStart == ResolverInit /\ AlignerIdle /\ CaptureIdle /\ RenderIdle /\ ToolsIdle

SpecResolver == ResolverStart /\ [][ResolverNext]_vars

AlignerNext ==
    \/ AlignStep /\ UNCHANGED <<resolverVars, captureVars, renderVars, toolVars>>
    \/ AlignWrite /\ UNCHANGED <<resolverVars, captureVars, renderVars, toolVars>>

AlignerStart == AlignerInit /\ ResolverIdle /\ CaptureIdle /\ RenderIdle /\ ToolsIdle

SpecAligner == AlignerStart /\ [][AlignerNext]_vars

CaptureNext ==
    \/ Tick /\ UNCHANGED <<resolverVars, alignerVars, renderVars, toolVars>>
    \/ \E s \in InputPool : StartInput(s) /\ UNCHANGED <<resolverVars, alignerVars, renderVars, toolVars>>
    \/ \E s \in InputPool : MarkInput(s) /\ UNCHANGED <<resolverVars, alignerVars, renderVars, toolVars>>

CaptureStart == CaptureInit /\ ResolverIdle /\ AlignerIdle /\ RenderIdle /\ ToolsIdle

SpecCapture == CaptureStart /\ [][CaptureNext]_vars

RenderNext ==
    \/ RvTick /\ UNCHANGED <<resolverVars, alignerVars, toolVars>>
    \/ \E s \in ChoicePool : RvChoice(s) /\ UNCHANGED <<resolverVars, alignerVars, toolVars>>
    \/ \E s \in InputPool : RvStart(s) /\ UNCHANGED <<resolverVars, alignerVars, toolVars>>
    \/ \E s \in InputPool : RvMark(s) /\ UNCHANGED <<resolverVars, alignerVars, toolVars>>

RenderStart == RenderInit /\ ResolverIdle /\ AlignerIdle /\ ToolsIdle

SpecRender == RenderStart /\ [][RenderNext]_vars

componentVars == <<resolverVars, alignerVars, captureVars, renderVars>>

ComponentsIdle == ResolverIdle /\ AlignerIdle /\ CaptureIdle /\ RenderIdle

FormatNext ==
    \/ CallFmtTime /\ UNCHANGED <<componentVars, readerVars, syncVars>>
    \/ CallFmtTimeAss /\ UNCHANGED <<componentVars, readerVars, syncVars>>
    \/ CallTimeToAss /\ UNCHANGED <<componentVars, readerVars, syncVars>>
    \/ CallAssTimeFromSeconds /\ UNCHANGED <<componentVars, readerVars, syncVars>>

FormatStart == FormatInit /\ ComponentsIdle /\ ReaderIdle /\ SyncIdle

SpecFormat == FormatStart /\ [][FormatNext]_vars

ReaderNext ==
    \/ CallReadCsvTiming /\ UNCHANGED <<componentVars, formatVars, syncVars>>
    \/ CallReadRows /\ UNCHANGED <<componentVars, formatVars, syncVars>>
    \/ CallReadWhisperCsv /\ UNCHANGED <<componentVars, formatVars, syncVars>>
    \/ CallLoadCsv /\ UNCHANGED <<componentVars, formatVars, syncVars>>

ReaderStart == ReaderInit /\ ComponentsIdle /\ FormatIdle /\ SyncIdle

SpecReader == ReaderStart /\ [][ReaderNext]_vars

SyncNext ==
    \/ \E o \in DemucsOutcomes : separate_vocals(o) /\ UNCHANGED <<componentVars, formatVars, readerVars>>
    \/ \E o \in WhisperOutcomes : transcribe_with_whisper(o) /\ UNCHANGED <<componentVars, formatVars, readerVars>>
    \/ align_lyrics_to_audio /\ UNCHANGED <<componentVars, formatVars, readerVars>>
    \/ ReadSynced /\ UNCHANGED <<componentVars, formatVars>>

SyncStart == SyncInit /\ ComponentsIdle /\ FormatIdle /\ ReaderIdle

SpecSync == SyncStart /\ [][SyncNext]_vars

(***************************************************************************)
(* Properties of the interval resolver.                                    *)
(***************************************************************************)
Last(q) == q[Len(q)]

LyricCues == SelectSeq(cues, LAMBDA c : c.kind = "lyric")

ResolverRan == resolver \in {"compute_rows_from_starts", "write_ass", "build_ass"}

\* The minimum visible duration the resolver that ran applies between cues.
MinVisibleOfResolver == IF resolver = "build_ass" THEN BA_MIN_VISIBLE ELSE MIN_VISIBLE

\* C1: every cue computed by write_ass and by compute_rows_from_starts, the
\* final cue included, lasts at least the minimum visible duration (0.20 s),
\* for every anchor list, spacing and buffer.
C1_EveryCueMinVisible ==
    resolver \in {"compute_rows_from_starts", "write_ass"} =>
        \A i \in 1..Len(cues) : cues[i].end - cues[i].start >= MIN_VISIBLE

Crowded == {i \in 1..(Len(rows) - 1) : rows[i + 1].start - spacing_sec < rows[i].start}

\* C3 as stated: a cue whose successor starts less than spacing after it ends
\* at successor start - overlap buffer.
C3_CrowdedEndIsNextMinusBuffer ==
    resolver \in {"compute_rows_from_starts", "write_ass"} =>
        \A i \in Crowded : cues[i].end = rows[i + 1].start - buffer_sec

\* C3 amended: a cue whose successor starts less than spacing after it ends at
\* its own start + the minimum visible duration (0.20 s); the buffer is not
\* used for a cue that has a successor.
C3_CrowdedEndIsStartPlusMinVisible ==
    resolver \in {"compute_rows_from_starts", "write_ass"} =>
        \A i \in Crowded : cues[i].end = rows[i].start + MIN_VISIBLE

\* C3 witness: anchors 0.1 s apart, spacing 0.5, buffer 0.05, resolved by
\* compute_rows_from_starts.
C3_Witness ==
    /\ resolver = "compute_rows_from_starts" /\ spacing_sec = 500 /\ buffer_sec = 50
    /\ Len(rows) >= 2 /\ rows[1].start = 100 /\ rows[2].start = 200
    /\ 1 \in Crowded
    /\ cues[1].end = 300

(***************************************************************************)
(* Properties of the text aligner.                                         *)
(***************************************************************************)
\* C4: one output row per ASR segment, in the segments' order, row i carrying
\* segment i's timestamp unchanged; the written file is the header and the rows.
C4_OneRowPerSegment ==
    /\ Len(out_rows) <= Len(whisper_rows)
    /\ \A i \in 1..Len(out_rows) : out_rows[i].timestamp = whisper_rows[i].timestamp
    /\ align_pc = "written" =>
          /\ Len(out_rows) = Len(whisper_rows)
          /\ Len(out_file) = Len(whisper_rows) + 1
          /\ \A i \in 1..Len(whisper_rows) :
                out_file[i + 1].timestamp = whisper_rows[i].timestamp

\* C4 witness: three segments with differing timestamps and one line are written.
C4_Witness ==
    /\ align_pc = "written" /\ Len(whisper_rows) = 3 /\ Len(genius_lines) = 1
    /\ whisper_rows[1].timestamp # whisper_rows[2].timestamp
    /\ Len(out_file) = 4

\* The line indices consumed so far, one entry per consumption.
Consumed == SelectSeq(chosen, LAMBDA c : c.line # NoLine)

\* C5: no authoritative line is assigned to more than one segment, by a match or
\* by the fallback; the consumed set is exactly the set of lines assigned.
C5_LineConsumedAtMostOnce ==
    /\ \A i, j \in 1..Len(Consumed) : i # j => Consumed[i].line # Consumed[j].line
    /\ used = {Consumed[i].line : i \in 1..Len(Consumed)}

\* C5 witness: two lines consumed, one by a confident match and one by the fallback.
C5_Witness ==
    /\ Len(Consumed) = 2
    /\ \E i, j \in 1..2 : Consumed[i].how = "match" /\ Consumed[j].how = "fallback"

\* The lines not consumed before segment i is processed.
UnconsumedBefore(i) ==
    {l \in 1..Len(genius_lines) : \A k \in 1..(i - 1) : chosen[k].line # l}

\* Line l scores at least as high as every line of U against segment i.
IsBestOf(l, U, i) ==
    \A o \in U : ~ScoreGt(Score(whisper_rows[i].text, genius_lines[o]),
                          Score(whisper_rows[i].text, genius_lines[l]))

\* C6: the text chosen for segment i is the unconsumed line of highest score if
\* that score is >= min_similarity; otherwise the lowest-index unconsumed line;
\* otherwise, no line being left, the segment's own text.
C6_ChoiceRule ==
    \A i \in 1..Len(chosen) :
        LET U    == UnconsumedBefore(i)
            good == {l \in U : /\ IsBestOf(l, U, i)
                               /\ ScoreAtLeast(Score(whisper_rows[i].text, genius_lines[l]),
                                               min_similarity)}
        IN  IF good # {}
            THEN chosen[i].line \in good /\ chosen[i].text = genius_lines[chosen[i].line]
            ELSE IF U # {}
                 THEN /\ chosen[i].line = SetMin(U)
                      /\ chosen[i].text = genius_lines[SetMin(U)]
                 ELSE chosen[i].line = NoLine /\ chosen[i].text = whisper_rows[i].text

\* C6 witness: one pass in which a segment took the best line though it was not
\* the first, a segment fell back to the first unconsumed line below the
\* threshold, and a segment kept its own text.
C6_Witness ==
    /\ Len(chosen) = 3 /\ Len(genius_lines) = 2
    /\ chosen[1].how = "match" /\ chosen[1].line = 2
    /\ chosen[2].how = "fallback" /\ chosen[2].line = 1
    /\ chosen[3].how = "keep"

Underflow == Len(genius_lines) < Len(whisper_rows)

\* C7 as stated: with fewer lines than segments, the first M segments receive a
\* line and every later segment is output with its original text unchanged.
C7_TrailingTextUnchanged ==
    Underflow =>
        \A i \in 1..Len(out_rows) :
            IF i <= Len(genius_lines)
            THEN chosen[i].line # NoLine
            ELSE out_rows[i].text = whisper_rows[i].text

\* C7 amended: with M < K lines, the alignment completes; the first M segments
\* receive a line and every later segment is output with its original text, in
\* which each two-character \n escape is rewritten to \N (a text without that
\* escape is output unchanged).
C7_TrailingTextKeptUpToEscape ==
    Underflow =>
        \A i \in 1..Len(out_rows) :
            IF i <= Len(genius_lines)
            THEN /\ chosen[i].line # NoLine
                 /\ out_rows[i].text = ReplaceEscN(genius_lines[chosen[i].line])
            ELSE /\ chosen[i].line = NoLine
                 /\ out_rows[i].text = ReplaceEscN(whisper_rows[i].text)
                 /\ (\A k \in 1..(Len(whisper_rows[i].text) - 1) :
                        ~(whisper_rows[i].text[k] = "\\" /\ whisper_rows[i].text[k + 1] = "n"))
                    => out_rows[i].text = whisper_rows[i].text

\* C7 witness: three segments and two lines, written; the third keeps its text.
C7_Witness ==
    /\ align_pc = "written" /\ Len(whisper_rows) = 3 /\ Len(genius_lines) = 2
    /\ min_similarity = 30
    /\ chosen[3].how = "keep" /\ out_rows[3].text = whisper_rows[3].text

(***************************************************************************)
(* Properties of capture.                                                  *)
(***************************************************************************)
QuitLines == {<<"q">>, <<" ", "Q">>}
InputRead == typed' # typed

\* C8: a session that is not aborted ends in Done with one timestamp per block;
\* blocks are presented in index order, the i-th timestamp is the time elapsed
\* since the start signal at the i-th advance, and timestamps never decrease.
C8_DoneHasAllTimestamps ==
    /\ shown = [i \in 1..Len(shown) |-> i]
    /\ Len(starts) = idx
    /\ \A i \in 1..Len(starts) : starts[i] = marks[i] - armed_at
    /\ IsSorted(starts)
    /\ cap_state = "Done" => Len(starts) = Len(texts) /\ Len(shown) = Len(texts)

\* C8 witness: a finished session of at least two blocks, armed after the clock
\* had run, with two different timestamps.
C8_Witness ==
    /\ cap_state = "Done" /\ Len(texts) >= 2 /\ armed_at > 0
    /\ starts[1] < starts[2]

\* C9 as stated: "u" read at AwaitingMark(i) with anchors recorded discards the
\* last anchor and goes back to block i-1; with no anchor it changes nothing.
C9_UndoPopsLastAnchor ==
    [][(InputRead /\ cap_state = "AwaitingMark" /\ Last(typed') = <<"u">>) =>
          IF Len(starts) > 0
          THEN /\ starts' = SubSeq(starts, 1, Len(starts) - 1)
               /\ idx' = idx - 1
               /\ cap_state' = "AwaitingMark"
          ELSE UNCHANGED <<cap_state, idx, starts>>]_vars

\* C9 amended: capture has no undo; a line other than q read at AwaitingMark(i),
\* "u" included, records one more anchor and moves to block i+1 (or Done), with
\* or without anchors recorded before, and no step ever discards an anchor.
C9_NoUndo ==
    [][/\ (InputRead /\ cap_state = "AwaitingMark" /\ Last(typed') \in {<<>>, <<"u">>}) =>
            /\ starts' = Append(starts, clock - armed_at)
            /\ idx' = idx + 1
            /\ cap_state' = IF idx + 1 = Len(texts) THEN "Done" ELSE "AwaitingMark"
       /\ Len(starts') >= Len(starts)
       /\ SubSeq(starts', 1, Len(starts)) = starts]_vars

\* C9 witness: "u" was read at a block prompt after an anchor had been recorded,
\* and two anchors are recorded.
C9_Witness ==
    /\ Len(typed) = 3 /\ typed[3] = <<"u">> /\ Len(starts) = 2

\* C10: q read in WaitingForStart or at any block prompt moves the session to
\* Aborted, without arming the timer and without recording an anchor.
C10_AbortInEveryState ==
    [][(InputRead /\ cap_state \in {"WaitingForStart", "AwaitingMark"}
                  /\ Last(typed') \in QuitLines) =>
          /\ cap_state' = "Aborted"
          /\ t0' = t0
          /\ starts' = starts]_vars

(***************************************************************************)
(* The resolvers compared: final cue, roomy successor, offset.             *)
(***************************************************************************)
AnyResolverRan ==
    resolver \in {"compute_rows_from_starts", "write_ass", "build_ass", "generate_ass"}

\* The tail duration each resolver gives a final anchor that has no end of its own.
TailOfResolver == IF resolver = "compute_rows_from_starts" THEN CORE_TAIL ELSE BA_TAIL

C13_RoomyEndIsNextMinusSpacing ==
    resolver \in {"write_ass", "compute_rows_from_starts"} =>
        \A i \in 1..(Len(rows) - 1) :
            rows[i + 1].start >= rows[i].start + spacing_sec + MIN_VISIBLE =>
                /\ cues[i].start = rows[i].start
                /\ cues[i].end = rows[i + 1].start - spacing_sec
                /\ TcMs(cues[i].st) = rows[i].start
                /\ TcMs(cues[i].et) = rows[i + 1].start - spacing_sec

\* C13 witness: Scenario A, anchors 0.0, 2.0, 5.0 with spacing 0.5 in write_ass
\* give 0.00-1.50 and 2.00-4.50.
C13_Witness ==
    /\ resolver = "write_ass" /\ spacing_sec = 500
    /\ Starts(rows) = <<0, 2000, 5000>>
    /\ cues[1].start = 0 /\ cues[1].end = 1500
    /\ cues[2].start = 2000 /\ cues[2].end = 4500

\* C14 as claimed: every lyric event of build_ass starts at max(0, anchor +
\* offset) and ends at least the minimum visible duration after that start.
C14_EndFromClampedStart ==
    resolver = "build_ass" =>
        \A i \in 1..Len(LyricCues) :
            /\ TcMs(LyricCues[i].st) = Max2(0, LyricCues[i].start)
            /\ TcMs(LyricCues[i].et) >= TcMs(LyricCues[i].st) + BA_MIN_VISIBLE

(***************************************************************************)
(* Shifted anchors, repeated calls, events per anchor.                     *)
(***************************************************************************)
ShiftPool == {500, 1000}

\* Every anchor's timestamp moved by k; ShiftRows moves each row's end as well.
ShiftStarts(rs, k) == [i \in 1..Len(rs) |-> [rs[i] EXCEPT !.start = rs[i].start + k]]
ShiftRows(rs, k) ==
    [i \in 1..Len(rs) |-> [rs[i] EXCEPT !.start = rs[i].start + k, !.end = rs[i].end + k]]

\* The cue list the resolver that ran, with its arguments, yields on rs.
Resolved(rs) ==
    CASE resolver = "compute_rows_from_starts" ->
             core_write_ass(compute_rows_from_starts(Starts(rs), Texts(rs),
                                                     spacing_sec, buffer_sec),
                            fade_in_ms, fade_out_ms)
      [] resolver = "write_ass"    -> write_ass(rs, buffer_sec, spacing_sec,
                                                fade_in_ms, fade_out_ms)
      [] resolver = "build_ass"    -> build_ass(rs, offset)
      [] resolver = "generate_ass" -> generate_ass(rs)
      [] OTHER -> <<>>

LyricOf(cs) == SelectSeq(cs, LAMBDA c : c.kind = "lyric")

\* b is a with every start and end moved by k: same number of cues, same texts.
SameShifted(a, b, k) ==
    /\ Len(a) = Len(b)
    /\ \A i \in 1..Len(a) :
          /\ b[i].start = a[i].start + k
          /\ b[i].end = a[i].end + k
          /\ b[i].text = a[i].text

NothingClamped == \A i \in 1..Len(cues) : cues[i].start >= 0

\* C15 as claimed: in build_ass (title card included), write_ass and
\* compute_rows_from_starts, moving every anchor's timestamp by k >= 0 where no
\* time is clamped at 0 gives as many cues with the same texts, each start and
\* end moved by exactly k.
C15_ShiftMovesEveryCue ==
    (resolver \in {"build_ass", "write_ass", "compute_rows_from_starts"}
        /\ runs = 1 /\ NothingClamped) =>
        \A k \in ShiftPool : SameShifted(cues, Resolved(ShiftStarts(rows_in, k)), k)

\* The first anchor is merged into the title card of build_ass.
MergedAt(t) == t + offset < TITLE_MERGE_BEFORE

\* C15 amended: moving every anchor by k >= 0 moves every cue of
\* compute_rows_from_starts by k; every cue of write_ass when each row's input
\* end moves by k as well; and every lyric cue of build_ass when the first
\* anchor stays on the same side of the 2.0 s title threshold, the title card
\* keeping its start at the offset.
C15_ShiftMovesCuesWhere ==
    (runs = 1 /\ NothingClamped) =>
        \A k \in ShiftPool :
            /\ resolver = "compute_rows_from_starts" =>
                   SameShifted(cues, Resolved(ShiftStarts(rows_in, k)), k)
            /\ resolver = "write_ass" =>
                   SameShifted(cues, Resolved(ShiftRows(rows_in, k)), k)
            /\ resolver = "build_ass" =>
                   LET shifted == Resolved(ShiftStarts(rows_in, k))
                   IN  /\ shifted[1].start = cues[1].start
                       /\ MergedAt(rows_in[1].start) = MergedAt(rows_in[1].start + k) =>
                              SameShifted(LyricOf(cues), LyricOf(shifted), k)

\* C15 witness: build_ass ran on three anchors of which the first, at 0.0 s, is
\* merged into the title card and stays merged when moved by 1.0 s.
C15_Witness ==
    /\ resolver = "build_ass" /\ runs = 1 /\ offset = 0
    /\ Len(rows_in) = 3 /\ rows_in[1].start = 0 /\ rows_in[2].start = 100
    /\ Len(LyricCues) = 2

\* C16 as claimed: a second call of build_ass or compute_rows_from_starts on the
\* same list with the same arguments yields the cue list of the first call, and
\* the list passed in is the one it was before the first call.
C16_RerunIdentical ==
    runs = 2 => (cues = first_cues /\ rows = rows_in)

\* The first row of the list build_ass has shifted is merged into the title card.
Merged == rows[1].start < TITLE_MERGE_BEFORE
FirstLyric == IF Merged THEN 2 ELSE 1

\* C17 as claimed: build_ass, write_ass and generate_ass emit as many events as
\* anchors were read, the i-th carrying the i-th anchor's text.
C17_OneEventPerAnchor ==
    resolver \in {"build_ass", "write_ass", "generate_ass"} =>
        /\ Len(cues) = Len(rows)
        /\ \A i \in 1..Len(cues) : cues[i].text = BreaksToToken(rows[i].text)

\* C17 amended: write_ass and generate_ass emit exactly one event per anchor, in
\* the order read, with the anchor's start and text; build_ass emits one title
\* card event first and then one event per anchor with its start and text, but
\* an anchor that is first and starts (offset applied) before 2.0 s has no event
\* of its own: its text is appended to the title card.
C17_EventsPerAnchor ==
    /\ resolver \in {"write_ass", "generate_ass"} =>
          /\ Len(cues) = Len(rows)
          /\ \A i \in 1..Len(cues) :
                cues[i].text = rows[i].text /\ cues[i].start = rows[i].start
    /\ resolver = "build_ass" =>
          /\ Len(cues) = 1 + Len(rows) - (FirstLyric - 1)
          /\ cues[1].kind = "title"
          /\ cues[1].text = IF Merged THEN TitleCompact \o rows[1].text ELSE TitleSpacious
          /\ \A j \in 1..Len(LyricCues) :
                /\ LyricCues[j].text = BreaksToToken(rows[j + FirstLyric - 1].text)
                /\ LyricCues[j].start = rows[j + FirstLyric - 1].start

\* C17 witness: build_ass ran on three anchors, merged the first into the title
\* card and emitted three events.
C17_Witness ==
    /\ resolver = "build_ass" /\ Len(rows) = 3 /\ Merged
    /\ Len(cues) = 3 /\ Len(LyricCues) = 2

(***************************************************************************)
(* No anchors, anchors out of order, line breaks in the text.              *)
(***************************************************************************)
\* C18 as claimed: on an empty anchor list compute_rows_from_starts and the
\* build_ass program yield no cue and no dialogue event, and the process is not
\* terminated.
C18_EmptyYieldsEmpty ==
    (resolver \in {"compute_rows_from_starts", "build_ass", "exited"} /\ Len(rows) = 0) =>
        (resolver # "exited" /\ Len(cues) = 0)

\* C18 amended: compute_rows_from_starts returns an empty list on empty lists;
\* build_ass on an empty list does not raise and returns a document whose only
\* dialogue event is the title card; and main of scripts/karaoke_time.py never
\* calls build_ass on an empty list: it terminates the process with status 1,
\* no document written.
C18_EmptyHandledPerCaller ==
    /\ (resolver = "compute_rows_from_starts" /\ Len(rows) = 0) => cues = <<>>
    /\ resolver = "exited" => (Len(rows) = 0 /\ cues = <<>> /\ runs = 0)
    /\ resolver = "build_ass" => Len(rows) > 0
    /\ Len(build_ass(<<>>, offset)) = 1
    /\ build_ass(<<>>, offset)[1].kind = "title"
    /\ build_ass(<<>>, offset)[1].text = TitleSpacious

\* C18 witness: main of scripts/karaoke_time.py read no rows, with an offset
\* given, and left.
C18_Witness ==
    resolver = "exited" /\ offset = 1000 /\ Len(rows) = 0

\* C19 as claimed: write_ass, build_ass and generate_ass, each after its reader,
\* emit an event for every anchor read, the events in non-decreasing order of
\* start.
C19_CuesInStartOrder ==
    resolver \in {"write_ass", "build_ass", "generate_ass"} =>
        /\ Len(LyricCues) + (IF resolver = "build_ass" /\ Merged THEN 1 ELSE 0) = Len(rows)
        /\ \A i \in 1..(Len(cues) - 1) : cues[i].start <= cues[i + 1].start

\* C20 as claimed: no dialogue event written by a resolver holds a raw line
\* break in its text.
C20_NoRawLineBreak ==
    AnyResolverRan => \A i \in 1..Len(cues) : ~HasBreak(cues[i].text)

RECURSIVE first_line(_)
first_line(t) ==
    IF t = <<>> \/ Head(t) = "\n" THEN <<>> ELSE <<Head(t)>> \o first_line(Tail(t))

Near(a, b) == a - b <= 10 /\ b - a <= 10

\* C23 as claimed: re-parsing the Start, the End and the text of every Dialogue
\* line written by write_ass recovers the cue's start and end within 0.01 s
\* (non-negative times) and its text.
C23_RoundTrip ==
    resolver = "write_ass" =>
        \A i \in 1..Len(cues) :
            /\ cues[i].start >= 0 => Near(TcMs(cues[i].st), cues[i].start)
            /\ cues[i].end >= 0 => Near(TcMs(cues[i].et), cues[i].end)
            /\ first_line(cues[i].text) = cues[i].text

\* C24 as claimed: every dialogue event of every serializer starts its text
\* with a fade tag carrying the configured fade-in and fade-out, both
\* non-negative.
C24_EveryEventHasFadeTag ==
    AnyResolverRan =>
        \A i \in 1..Len(cues) :
            /\ cues[i].fad # NoFade
            /\ cues[i].fad = <<fade_in_ms, fade_out_ms>>
            /\ fade_in_ms >= 0 /\ fade_out_ms >= 0

\* C25 as claimed: in every Dialogue line of generate_ass the End is not earlier
\* than the Start, in the times computed and in the timecodes written.
C25_EndNotBeforeStart ==
    resolver = "generate_ass" =>
        \A i \in 1..Len(cues) :
            /\ cues[i].end >= cues[i].start
            /\ TcMs(cues[i].et) >= TcMs(cues[i].st)

\* C30 as claimed: in the document of build_ass the End of the title card is not
\* later than the Start of the first lyric event after it, merged first lyric
\* or not.
C30_TitleEndsBeforeFirstLyric ==
    (resolver = "build_ass" /\ Len(LyricCues) > 0) =>
        /\ cues[1].kind = "title"
        /\ TcMs(cues[1].et) <= TcMs(LyricCues[1].st)

\* render_video took its timestamps from the timing file it found.
Reused == choice # <<>> /\ is_reuse(Last(choice)) /\ rv_pc # "AskReuse"

\* C29 as claimed: on the reuse path the document has exactly one cue per lyric
\* block, and cue i starts at the timestamp the timing file holds for block i.
C29_ReuseKeepsBlockTimestamps ==
    Reused =>
        /\ ass_file.written
        /\ Len(ass_file.cues) = Len(texts)
        /\ \A i \in 1..Len(ass_file.cues) :
              \E j \in 1..Len(csv_prior.rows) :
                  /\ csv_prior.rows[j].ok
                  /\ csv_prior.rows[j].lyric = texts[i]
                  /\ csv_prior.rows[j].t = ass_file.cues[i].start

(***************************************************************************)
(* Properties of the timecode formatters.                                  *)
(***************************************************************************)
\* C26 as claimed: every timecode formatted by fmt_time, fmt_time_ass,
\* time_to_ass and ass_time_from_seconds has hours >= 0, minutes in 00..59 and
\* seconds in 00.00..59.99, and a negative time formats as 0:00:00.00.
C26_TimecodeInRange ==
    fmt_fn # "none" =>
        /\ fmt_out.h >= 0
        /\ fmt_out.m \in 0..59
        /\ fmt_out.cs \in 0..5999
        /\ fmt_in < 0 => fmt_out = [h |-> 0, m |-> 0, cs |-> 0]

\* A formatted non-negative time, parsed back, is within 0.01 s of the time.
FormattedTimeParsesBack ==
    (fmt_fn # "none" /\ fmt_in >= 0) => Near(TcMs(fmt_out), fmt_in)

(***************************************************************************)
(* Properties of the timing-file readers.                                  *)
(***************************************************************************)
HasHeader(f, h) == f # <<>> /\ f[1] = h

\* C21: a file under the header time,lyric is read to the same anchor list as
\* the same rows under the header timestamp,text, by read_csv_timing,
\* read_rows and read_whisper_csv.
C21_AltHeaderReadsTheSame ==
    (reader \in {"read_csv_timing", "read_rows", "read_whisper_csv"} /\ HasHeader(csv_in, AltHeader))
        => read_out = ReadBy(reader, <<StdHeader>> \o Tail(csv_in))

\* The timestamp grammar of a reader: what its own parser takes as a time.
TokenTime(name, tok) ==
    CASE name = "read_csv_timing" -> FloatOf(tok)
      [] name = "read_rows" ->
            IF IsNumeric(Strip(tok)) \/ Len(Split(Strip(tok), ":")) \in {2, 3}
            THEN parse_timestamp(tok) ELSE Raised
      [] name = "load_csv" ->
            IF Len(Split(tok, ":")) = 2 /\ FloatOf(Split(tok, ":")[1]).ok /\ FloatOf(Split(tok, ":")[2]).ok
            THEN Value(FloatOf(Split(tok, ":")[1]).v * 60 + FloatOf(Split(tok, ":")[2]).v)
            ELSE Raised

\* A row of the file that is a well-formed anchor for the reader.
GoodRow(name, row) == Len(row) >= 2 /\ TokenTime(name, row[1]).ok /\ Strip(row[2]) # <<>>

\* C22: under the header timestamp,text a read never raises, returns exactly
\* the well-formed rows, each with the time of its own token and its own
\* text, and never puts a default time for a bad token.
C22_BadRowsSkipped ==
    (reader \in {"load_csv", "read_rows", "read_csv_timing"} /\ HasHeader(csv_in, StdHeader))
        => /\ read_out.status = "ok"
           /\ {r.src : r \in {read_out.rows[k] : k \in 1..Len(read_out.rows)}}
                  = {i \in 2..Len(csv_in) : GoodRow(reader, csv_in[i])}
           /\ \A k \in 1..Len(read_out.rows) :
                  LET r == read_out.rows[k]
                  IN  /\ TokenTime(reader, csv_in[r.src][1]).ok
                      /\ r.t = TokenTime(reader, csv_in[r.src][1]).v
                      /\ r.text = Strip(csv_in[r.src][2])

(***************************************************************************)
(* Properties of the auto-sync step.                                       *)
(***************************************************************************)
Transcript(name) == IF name = "custom" THEN json_custom ELSE json_default

\* C28: with --clear-cache, separate_vocals and transcribe_with_whisper have
\* run their tool whenever they are past, and the file each returns was
\* written by that run, whatever files were there before.
C28_ClearCacheReturnsFreshOutput ==
    clear_cache =>
        /\ sync_pc # "start" => "demucs" \in ran
        /\ vocals_path # "none" => vocals_wav.fresh
        /\ sync_pc \in {"transcribed", "aligned", "read"} => "whisper" \in ran
        /\ json_out # "none" => Transcript(json_out).fresh

\* C27: read_rows reads each row of the synced CSV back as an anchor with the
\* start written for the row as its time and the lyric line as its text.
C27_SyncedCsvReadsBack ==
    sync_pc = "read" =>
        /\ read_out.status = "ok"
        /\ Len(read_out.rows) = Len(lyrics_lines)
        /\ \A i \in 1..Len(lyrics_lines) :
               /\ read_out.rows[i].t = FloatOf(csv_out[i + 1][1]).v
               /\ read_out.rows[i].t = LINE_SEC * (i - 1)
               /\ read_out.rows[i].text = lyrics_lines[i]
====
